---- MODULE Spec2Model ----
(***************************************************************************)
(* Model of pynab's hardware engine: the two-ear motor controller          *)
(* (nabd/ears_gpio.py, class EarsGPIO) and the ALSA audio engine           *)
(* (nabd/sound_alsa.py, class SoundAlsa).                                  *)
(*                                                                         *)
(* Threads of EarsGPIO: the asyncio loop thread (go, detect_positions,     *)
(* reset_ears), the single executor worker (_run_detection) and the        *)
(* RPi.GPIO event thread (_encoder_cb).  One run of the callback is one     *)
(* step, made under the mutex of encoder_cv; each statement of the code     *)
(* that runs without that mutex (go, the start of _run_detection) is one    *)
(* step, so that callbacks interleave with them.                            *)
(*                                                                         *)
(* Time is counted in ticks of 0.1 s.                                      *)
(***************************************************************************)
EXTENDS Integers, Sequences, FiniteSets, TLC

\* ---------------------------------------------------------------- bounds
\* Number of encoder holes per revolution used for checking (Ears.STEPS).
HOLES == 3
\* Requested positions range over -MaxTurns*HOLES .. (MaxTurns+1)*HOLES - 1.
MaxTurns == 1
\* Number of ear operations the caller issues in one run.
MaxOps == 1
\* Number of encoder edges in one run that no started motor produces (an ear
\* turned by hand, or an edge during the start of a motor at rest).
MaxStray == 1
\* Bytes of one playback period: periodsize, channels and sample width of the
\* files played.
PeriodSize == 2
Channels == 1
Width == 1
\* Longest WAV stream, in bytes.
MaxWav == 5
\* Most decoded frames of an MP3 stream, and the longest of them, in bytes.
MaxFrames == 2
MaxFrame == 5
\* Tasks of the asyncio loop that call the audio engine, and calls each makes.
NumTasks == 2
MaxCalls == 2
\* Device operations that raise in one run.
MaxFaults == 1
\* Periods read by one recording while its active flag is set.
MaxReads == 2
\* Calls of wait_while_running, and calls of go or move made by other tasks
\* while the asyncio lock of the ears is held.
MaxWaits == 1
MaxQueued == 1

\* ------------------------------------------------------ program constants
None == -1000
LEFT_EAR == 0
RIGHT_EAR == 1
FORWARD_INCREMENT == 1
BACKWARD_INCREMENT == -1
LOW == 0
HIGH == 1
\* encoder_cv.wait(0.3), in ticks
WAIT_TIMEOUT == 3
\* delta > 0.4, in ticks
GAP_DELTA == 4

\* line 178: inp.setperiodsize(1600), and the 2 bytes of a PCM_FORMAT_S16_LE sample (line 177)
RECORD_PERIOD == 1600
SAMPLE_BYTES == 2
\* line 181: the negative size inp.read() returns after an overrun
Overrun == -32

EARS == {LEFT_EAR, RIGHT_EAR}
Requests == (0 - MaxTurns * HOLES) .. ((MaxTurns + 1) * HOLES - 1)
AgeCap == GAP_DELTA + 1

VARIABLES
  \* EarsGPIO fields
  positions, targets, directions, running,
  \* GPIO output level of MOTOR_CHANNELS[ear][0..1]
  pins,
  \* owner of the mutex of encoder_cv: "free", "cb" or "worker"
  cv_owner,
  \* the waiter of encoder_cv has been notified
  notified,
  \* executor worker: position in _do_reset_ears/_run_detection, loop ear, arguments
  w_pc, w_ear, w_tl, w_tr, current_positions,
  \* time.time() - previous_risings[ear], and time spent in the current wait
  rising_age, waited,
  \* executor queue of the ears, and the state of the awaited future
  ear_jobs, ear_future,
  \* asyncio.Lock of EarsGPIO
  lock_held,
  \* loop thread: the ear operation in progress, its position, operations left
  op, op_pc, ops_left,
  \* edges left that no started motor produces
  strays_left,
  \* observation: an exception reached the awaiting caller
  op_error,
  \* observation, per ear, since the last go on it / detection start:
  \*   req      position requested by the last go, when it found the ear
  \*            stopped at line 200; None otherwise
  \*   stray    an edge was delivered that no fully started motor produced
  \*   cold     a _start_motor of a motor at rest is in progress
  \*   starts   number of _start_motor calls begun
  \*   arrivals number of edges that brought positions to req mod HOLES
  \*   norms    number of target normalisations made by _encoder_cb
  \*   seen     positions[ear] as line 205 of the last go read it
  \*   counted  for an ear homed from rest by the latest detection run, with
  \*            no caller target: the number of edges line 65 has counted
  \*            since line 123, modulo HOLES; None for any other ear
  req, stray, cold, starts, arrivals, norms, seen, counted,
  \* self.callback is set (on_move was called), and the ears for which the
  \* last run of _encoder_cb scheduled the move callback (line 63)
  callback, moved,
  \* the task calling wait_while_running: its position ("idle", "await"), the
  \* calls it has left, and the future of its job ("none", "pending", "done")
  wait_pc, waits_left, wait_future,
  \* calls of go and move waiting for the asyncio lock, oldest first, and the
  \* number of such calls still to be made
  lock_waiters, queued_left,
  \* SoundAlsa fields; a future is named by its number, None when self.future is None
  future, currently_playing, currently_recording,
  \* state of each future made by run_in_executor: "unused", "pending", "done", "raised"
  fut_state,
  \* queue of the ThreadPoolExecutor of SoundAlsa
  audio_jobs,
  \* audio worker: position in _play/_record, its job, the device handle
  \* ("unbound", "open", "closed"), an exception is propagating or was caught
  s_pc, s_job, device, s_exc,
  \* _play: data (WAV), chunk (MP3), bytes or frames of the stream consumed,
  \* the device.write calls of the session, and whether the stream was cut short
  data, chunk, s_next, written, s_cut,
  \* _record: reads made while the flag was set, and the calls of cb
  reads, cb_log,
  \* device operations that may still raise, and the last one that did
  \* ("none", "open", "write", "read")
  faults_left, fault_at,
  \* asyncio tasks calling the engine: position ("idle", "wait", "ready"),
  \* the call in progress or last made, the future awaited, calls left,
  \* outcome of the last call ("none", "returned", "raised")
  t_pc, t_call, t_await, t_left, t_result,
  \* per future, the tasks awaiting it in the order they began to wait; and
  \* the tasks the loop has scheduled to resume
  waiters, ready

earVars == <<positions, targets, directions, running, pins, cv_owner, notified,
             w_pc, w_ear, w_tl, w_tr, current_positions,
             rising_age, waited, ear_jobs, ear_future, lock_held, op, op_pc,
             ops_left, strays_left, op_error, req, stray, cold, starts, arrivals,
             norms, seen, counted, callback, moved, wait_pc, waits_left, wait_future,
             lock_waiters, queued_left>>

callVars == <<callback, moved, wait_pc, waits_left, wait_future, lock_waiters,
              queued_left>>

axisVars == <<positions, targets, directions, running, pins>>
wVars == <<w_pc, w_ear, w_tl, w_tr, current_positions>>
timeVars == <<rising_age, waited>>
execVars == <<ear_jobs, ear_future>>
loopVars == <<lock_held, op, op_pc, ops_left, op_error>>
obsVars == <<strays_left, req, stray, cold, starts, arrivals, norms, seen,
             counted>>

flagVars == <<currently_playing, currently_recording>>
sessVars == <<future, fut_state, audio_jobs>>
playVars == <<data, chunk, s_next, written, s_cut>>
recVars == <<reads, cb_log>>
taskVars == <<t_pc, t_call, t_await, t_left, t_result, waiters, ready>>
soundVars == <<flagVars, sessVars, s_pc, s_job, device, s_exc, playVars, recVars,
               faults_left, fault_at, taskVars>>

vars == <<earVars, soundVars>>

\* ------------------------------------------------------------ pure helpers
\* line 65: (positions + direction) % HOLES
NextPosition(pos, dir) == (pos + dir) % HOLES

\* Normalize with the turn taken off one hole short
NormalizeShort(target) ==
  IF target >= HOLES THEN target - HOLES + 1
  ELSE IF target < 0 THEN target + HOLES - 1
  ELSE target

\* lines 73-76 and 206-209: one STEPS increment/decrement of an out-of-range target
Normalize(target) ==
  IF target >= HOLES THEN target - HOLES
  ELSE IF target < 0 THEN target + HOLES
  ELSE target

\* AtTarget comparing modulo HOLES, as line 72 does
AtTargetModular(pos, target) == pos = target % HOLES

\* line 69: positions[ear] == targets[ear]
AtTarget(pos, target) == pos = target

\* lines 72 and 205: positions[ear] == targets[ear] % HOLES
AtModularTarget(pos, target) == pos = target % HOLES

\* line 95: dir_ix = int((1 - direction) / 2)
DirIx(direction) == (1 - direction) \div 2

\* lines 201-204: a true direction argument turns backward
Increment(direction) ==
  IF direction THEN BACKWARD_INCREMENT ELSE FORWARD_INCREMENT

\* GapPassed with the threshold included
GapPassedAtLeast(delta) == delta >= GAP_DELTA

\* lines 137 and 154: delta > 0.4
GapPassed(delta) == delta > GAP_DELTA

\* Line 144 with the direction left out of the return target
SignalTargetNoDirection(dir, pos) == (0 - pos) % HOLES

\* line 144: (directions[ear] - positions[ear]) % HOLES
SignalTarget(dir, pos) == (dir - pos) % HOLES

\* line 161: (- positions[ear]) % HOLES
TimeoutTarget(pos) == (0 - pos) % HOLES

\* lines 139-143 and 156-160: the caller's target for this ear, when given
CallerTarget(ear, tl, tr) ==
  IF tl # None /\ ear = LEFT_EAR THEN tl
  ELSE IF tr # None /\ ear = RIGHT_EAR THEN tr
  ELSE None

Cap(n, m) == IF n > m THEN m ELSE n

BothLow(ear) == pins[ear][0] = LOW /\ pins[ear][1] = LOW

\* The motor of the ear is powered and its _start_motor call has returned (or
\* it was already turning when that call began): its encoder produces edges.
MotorDriven(ear) == ~BothLow(ear) /\ ~cold[ear]

NoOp == [kind |-> "none", ear |-> 0, position |-> 0, direction |-> FALSE,
         tl |-> None, tr |-> None]

\* ------------------------------------------------------------------- Init
\* An ear at rest: as __init__ leaves it (lines 25-29: position 0, target 0,
\* direction 1), or as _encoder_cb leaves it after an earlier seek to q was
\* stopped (lines 69-71 and 85-86: direction 0, position = target = q), or
\* after a seek to 0 when it was then turned by hand (lines 60-61: position
\* None).
RestStates ==
  {[pos |-> 0, tgt |-> 0, dir |-> 1]}
  \cup {[pos |-> q, tgt |-> q, dir |-> 0] : q \in 0 .. (HOLES - 1)}
  \cup {[pos |-> None, tgt |-> 0, dir |-> 0]}

\* lines 25-31 and 41-44, with both motors at rest; nops operations will be
\* called and nstray edges come from no started motor
InitWith(rest, nops, nstray) ==
  /\ \E l \in rest, r \in rest :
       /\ positions = [e \in EARS |-> IF e = LEFT_EAR THEN l.pos ELSE r.pos]
       /\ targets = [e \in EARS |-> IF e = LEFT_EAR THEN l.tgt ELSE r.tgt]
       /\ directions = [e \in EARS |-> IF e = LEFT_EAR THEN l.dir ELSE r.dir]
  /\ running = [e \in EARS |-> FALSE]
  /\ pins = [e \in EARS |-> [i \in 0..1 |-> LOW]]
  /\ cv_owner = "free"
  /\ notified = FALSE
  /\ w_pc = "idle" /\ w_ear = 0 /\ w_tl = None /\ w_tr = None
  /\ current_positions = [e \in EARS |-> 0]
  /\ rising_age = [e \in EARS |-> 0]
  /\ waited = 0
  /\ ear_jobs = <<>>
  /\ ear_future = "none"
  /\ lock_held = FALSE
  /\ op = NoOp /\ op_pc = "idle" /\ ops_left = nops
  /\ strays_left = nstray
  /\ op_error = FALSE
  /\ req = [e \in EARS |-> None]
  /\ stray = [e \in EARS |-> FALSE]
  /\ cold = [e \in EARS |-> FALSE]
  /\ starts = [e \in EARS |-> 0]
  /\ arrivals = [e \in EARS |-> 0]
  /\ norms = [e \in EARS |-> 0]
  /\ seen = [e \in EARS |-> None]
  /\ counted = [e \in EARS |-> None]

\* The callers of the ears: on_move was called or not (line 102 is the only
\* place that sets self.callback), nwaits calls of wait_while_running and
\* nqueued calls of go or move made while the lock is held are to come
CallersInit(registered, nwaits, nqueued) ==
  /\ callback = registered
  /\ moved = <<>>
  /\ wait_pc = "idle" /\ waits_left = nwaits /\ wait_future = "none"
  /\ lock_waiters = <<>> /\ queued_left = nqueued

\* --------------------------------------------------- _encoder_cb (lines 49-76)
\* Condition.notify(): wakes the thread waiting in encoder_cv.wait, if there is one
Notify == IF w_pc \in {"det_wait", "wwr_wait"} THEN TRUE ELSE notified

\* lines 83-86: _stop_motor, as <<pins, running, directions>>
StopMotor(ear) ==
  <<[pins EXCEPT ![ear] = [i \in 0..1 |-> LOW]],
    [running EXCEPT ![ear] = FALSE],
    [directions EXCEPT ![ear] = 0]>>

\* Scheduled with the move callback scheduled a second time
ScheduledTwice(e) ==
  IF directions[e] = 0 /\ callback THEN <<e, e>> ELSE <<>>

\* lines 62-63: the calls of the move callback that one run of _encoder_cb
\* schedules on the loop, each named by the ear it is given
Scheduled(e) ==
  IF directions[e] = 0 /\ callback THEN <<e>> ELSE <<>>

\* The callback of one rising edge of ear e, run under the mutex of encoder_cv.
\*   line 60-63: direction 0 forgets the position and schedules the move
\*               callback; with no callback set, line 62 raises AttributeError
\*               after the position was forgotten
\*   line 65:    otherwise the position advances; None + direction raises
\*               TypeError, which ends the callback with nothing changed
\*   lines 66-76: notify the homing loop, or stop at the target, or normalise
\*               a multi-turn target
EncoderCb(e) ==
  /\ cv_owner = "free"
  /\ MotorDriven(e) \/ strays_left > 0
  /\ strays_left' = (IF MotorDriven(e) THEN strays_left ELSE strays_left - 1)
  /\ stray' = [stray EXCEPT ![e] = stray[e] \/ ~MotorDriven(e)]
  /\ IF directions[e] = 0
     THEN /\ positions' = [positions EXCEPT ![e] = None]
          /\ UNCHANGED <<targets, directions, running, pins, notified,
                         arrivals, norms>>
     ELSE IF positions[e] = None
     THEN UNCHANGED <<axisVars, notified, arrivals, norms>>
     ELSE LET pos == NextPosition(positions[e], directions[e])
          IN /\ positions' = [positions EXCEPT ![e] = pos]
             /\ arrivals' = [arrivals EXCEPT ![e] =
                   IF req[e] # None /\ pos = req[e] % HOLES
                   THEN Cap(arrivals[e] + 1, 3) ELSE arrivals[e]]
             /\ IF targets[e] = None
                THEN /\ notified' = Notify
                     /\ UNCHANGED <<targets, directions, running, pins, norms>>
                ELSE IF AtTarget(pos, targets[e])
                THEN /\ pins' = StopMotor(e)[1]
                     /\ running' = StopMotor(e)[2]
                     /\ directions' = StopMotor(e)[3]
                     /\ notified' = Notify
                     /\ UNCHANGED <<targets, norms>>
                ELSE IF AtModularTarget(pos, targets[e])
                THEN /\ targets' = [targets EXCEPT ![e] = Normalize(targets[e])]
                     /\ norms' = [norms EXCEPT ![e] = Cap(norms[e] + 1, 3)]
                     /\ UNCHANGED <<directions, running, pins, notified>>
                ELSE UNCHANGED <<targets, directions, running, pins, notified,
                                 norms>>
  /\ moved' = Scheduled(e)
  /\ counted' = [counted EXCEPT ![e] =
        IF counted[e] # None /\ directions[e] # 0 /\ positions[e] # None
        THEN (counted[e] + 1) % HOLES ELSE counted[e]]
  /\ UNCHANGED <<seen, cv_owner, wVars, timeVars, execVars, loopVars, req, cold,
                 starts>>
  /\ UNCHANGED <<callback, wait_pc, waits_left, wait_future, lock_waiters,
                 queued_left, soundVars>>

\* --------------------------------------------------- _start_motor (lines 88-99)
\* line 96
PinsAfterLow(ear, direction) ==
  [pins EXCEPT ![ear][1 - DirIx(direction)] = LOW]

\* line 97
PinsAfterHigh(ear, direction) ==
  [pins EXCEPT ![ear][DirIx(direction)] = HIGH]

\* --------------------------------------------- executor worker (lines 108-163)
NextEarPc(ear) == IF ear = LEFT_EAR THEN "det_check" ELSE "det_time"
NextEar(ear) == IF ear = LEFT_EAR THEN RIGHT_EAR ELSE ear

\* ThreadPoolExecutor(max_workers=1): the worker takes the oldest job
WorkerTake ==
  /\ w_pc = "idle" /\ ear_jobs # <<>>
  /\ w_tl' = Head(ear_jobs).tl /\ w_tr' = Head(ear_jobs).tr
  /\ w_pc' = (IF Head(ear_jobs).fn = "reset" THEN "reset"
              ELSE IF Head(ear_jobs).fn = "wait" THEN "wwr_lock"
              ELSE "det_check")
  /\ w_ear' = LEFT_EAR
  /\ ear_jobs' = Tail(ear_jobs)
  /\ counted' = (IF Head(ear_jobs).fn = "wait" THEN counted
                 ELSE [e \in EARS |-> None])
  /\ UNCHANGED <<axisVars, cv_owner, notified, current_positions,
                 timeVars, ear_future, loopVars, strays_left, req, stray,
                 cold, starts, arrivals, norms, seen>>
  /\ UNCHANGED <<callVars, soundVars>>

\* line 113: _do_reset_ears forgets both positions
DoResetEars ==
  /\ w_pc = "reset"
  /\ positions' = [e \in EARS |-> None]
  /\ w_pc' = "det_check"
  /\ req' = [e \in EARS |-> None]
  /\ seen' = [e \in EARS |-> None]
  /\ stray' = [e \in EARS |-> FALSE]
  /\ starts' = [e \in EARS |-> 0]
  /\ arrivals' = [e \in EARS |-> 0]
  /\ norms' = [e \in EARS |-> 0]
  /\ counted' = [e \in EARS |-> None]
  /\ UNCHANGED <<targets, directions, running, pins, cv_owner, notified, w_ear,
                 w_tl, w_tr, current_positions, timeVars, execVars, loopVars,
                 strays_left, cold>>
  /\ UNCHANGED <<callVars, soundVars>>

\* line 122
DetCheck ==
  /\ w_pc = "det_check"
  /\ IF positions[w_ear] = None
     THEN w_pc' = "det_pos" /\ UNCHANGED w_ear
     ELSE w_pc' = NextEarPc(w_ear) /\ w_ear' = NextEar(w_ear)
  /\ UNCHANGED <<axisVars, cv_owner, notified, w_tl, w_tr,
                 current_positions, timeVars, execVars, loopVars, obsVars>>
  /\ UNCHANGED <<callVars, soundVars>>

\* line 123
DetPosition ==
  /\ w_pc = "det_pos"
  /\ positions' = [positions EXCEPT ![w_ear] = 0]
  /\ w_pc' = "det_tgt"
  /\ req' = [req EXCEPT ![w_ear] = None]
  /\ starts' = [starts EXCEPT ![w_ear] = 0]
  /\ arrivals' = [arrivals EXCEPT ![w_ear] = 0]
  /\ norms' = [norms EXCEPT ![w_ear] = 0]
  /\ stray' = [stray EXCEPT ![w_ear] = FALSE]
  /\ seen' = [seen EXCEPT ![w_ear] = None]
  /\ counted' = [counted EXCEPT ![w_ear] =
        IF /\ CallerTarget(w_ear, w_tl, w_tr) = None
           /\ ~running[w_ear] /\ BothLow(w_ear)
        THEN 0 ELSE None]
  /\ UNCHANGED <<strays_left, targets, directions, running, pins, cv_owner, notified, w_ear, w_tl, w_tr, current_positions, timeVars, execVars,
                 loopVars, cold>>
  /\ UNCHANGED <<callVars, soundVars>>

\* line 124
DetTarget ==
  /\ w_pc = "det_tgt"
  /\ targets' = [targets EXCEPT ![w_ear] = None]
  /\ w_pc' = "det_low"
  /\ UNCHANGED <<positions, directions, running, pins, cv_owner, notified,
                 w_ear, w_tl, w_tr, current_positions, timeVars,
                 execVars, loopVars, obsVars>>
  /\ UNCHANGED <<callVars, soundVars>>

\* line 125 -> line 96
DetStartLow ==
  /\ w_pc = "det_low"
  /\ cold' = [cold EXCEPT ![w_ear] = BothLow(w_ear)]
  /\ pins' = PinsAfterLow(w_ear, FORWARD_INCREMENT)
  /\ w_pc' = "det_high"
  /\ UNCHANGED <<seen, strays_left, positions, targets, directions, running, cv_owner, notified,
                 w_ear, w_tl, w_tr, current_positions, timeVars,
                 execVars, loopVars, req, stray, starts, arrivals, norms>>
  /\ UNCHANGED <<counted, callVars, soundVars>>

\* line 125 -> line 97
DetStartHigh ==
  /\ w_pc = "det_high"
  /\ pins' = PinsAfterHigh(w_ear, FORWARD_INCREMENT)
  /\ w_pc' = "det_run"
  /\ UNCHANGED <<positions, targets, directions, running, cv_owner, notified,
                 w_ear, w_tl, w_tr, current_positions, timeVars,
                 execVars, loopVars, obsVars>>
  /\ UNCHANGED <<callVars, soundVars>>

\* line 125 -> line 98
DetStartRunning ==
  /\ w_pc = "det_run"
  /\ running' = [running EXCEPT ![w_ear] = TRUE]
  /\ w_pc' = "det_dir"
  /\ UNCHANGED <<positions, targets, directions, pins, cv_owner, notified,
                 w_ear, w_tl, w_tr, current_positions, timeVars,
                 execVars, loopVars, obsVars>>
  /\ UNCHANGED <<callVars, soundVars>>

\* line 125 -> line 99, then the next ear of the for loop
DetStartDir ==
  /\ w_pc = "det_dir"
  /\ directions' = [directions EXCEPT ![w_ear] = FORWARD_INCREMENT]
  /\ cold' = [cold EXCEPT ![w_ear] = FALSE]
  /\ w_pc' = NextEarPc(w_ear) /\ w_ear' = NextEar(w_ear)
  /\ UNCHANGED <<seen, strays_left, positions, targets, running, pins, cv_owner, notified, w_tl, w_tr, current_positions, timeVars, execVars, loopVars,
                 req, stray, starts, arrivals, norms>>
  /\ UNCHANGED <<counted, callVars, soundVars>>

\* lines 126-127: previous_risings = [start, start]
DetTime ==
  /\ w_pc = "det_time"
  /\ rising_age' = [e \in EARS |-> 0]
  /\ w_pc' = "det_lock"
  /\ UNCHANGED <<axisVars, cv_owner, notified, w_ear, w_tl, w_tr,
                 current_positions, waited, execVars, loopVars, obsVars>>
  /\ UNCHANGED <<callVars, soundVars>>

\* lines 128-129
DetLock ==
  /\ w_pc = "det_lock" /\ cv_owner = "free"
  /\ cv_owner' = "worker"
  /\ current_positions' = positions
  /\ w_pc' = "det_loop"
  /\ UNCHANGED <<axisVars, notified, w_ear, w_tl, w_tr, timeVars,
                 execVars, loopVars, obsVars>>
  /\ UNCHANGED <<callVars, soundVars>>

\* lines 130-131: the loop test; wait releases the mutex.  Line 163 otherwise:
\* the with block ends, the result is returned and the future completes.
DetLoop ==
  /\ w_pc = "det_loop"
  /\ cv_owner' = "free"
  /\ notified' = FALSE
  /\ waited' = 0
  /\ IF running[LEFT_EAR] \/ running[RIGHT_EAR]
     THEN w_pc' = "det_wait" /\ UNCHANGED <<ear_future, rising_age>>
     ELSE /\ w_pc' = "idle" /\ ear_future' = "done"
          /\ rising_age' = [e \in EARS |-> 0]
  /\ UNCHANGED <<axisVars, w_ear, w_tl, w_tr, current_positions,
                 ear_jobs, loopVars, obsVars>>
  /\ UNCHANGED <<callVars, soundVars>>

\* 0.1 s passes while the worker waits; the wait ends at its timeout.
\* previous_risings[ear] is read only while targets[ear] is None (lines 135
\* and 152), so the age of an ear that is not homing is kept at 0.
Tick ==
  /\ w_pc = "det_wait" /\ ~notified /\ waited < WAIT_TIMEOUT
  /\ waited' = waited + 1
  /\ rising_age' = [e \in EARS |->
        IF targets[e] = None THEN Cap(rising_age[e] + 1, AgeCap) ELSE 0]
  /\ UNCHANGED <<axisVars, cv_owner, notified, wVars, execVars,
                 loopVars, obsVars>>
  /\ UNCHANGED <<callVars, soundVars>>

\* lines 135-147 for one ear: <<targets[ear], positions[ear], current_positions[ear],
\* age, error>> after the signal branch
SignalEar(ear) ==
  IF targets[ear] = None /\ positions[ear] # current_positions[ear]
  THEN IF GapPassed(rising_age[ear])
       THEN IF CallerTarget(ear, w_tl, w_tr) # None
            THEN <<CallerTarget(ear, w_tl, w_tr), directions[ear],
                   directions[ear], 0, FALSE>>
            ELSE IF positions[ear] = None
            THEN <<targets[ear], positions[ear], current_positions[ear],
                   rising_age[ear], TRUE>>
            ELSE <<SignalTarget(directions[ear], positions[ear]),
                   directions[ear], directions[ear], 0, FALSE>>
       ELSE <<targets[ear], positions[ear], positions[ear], 0, FALSE>>
  ELSE <<targets[ear], positions[ear], current_positions[ear],
         rising_age[ear], FALSE>>

\* lines 151-162 for one ear: <<targets[ear], positions[ear], error>> after the
\* timeout branch
TimeoutEar(ear) ==
  IF targets[ear] = None /\ GapPassed(rising_age[ear])
  THEN IF CallerTarget(ear, w_tl, w_tr) # None
       THEN <<CallerTarget(ear, w_tl, w_tr), 0, FALSE>>
       ELSE IF positions[ear] = None
       THEN <<targets[ear], positions[ear], TRUE>>
       ELSE <<TimeoutTarget(positions[ear]), 0, FALSE>>
  ELSE <<targets[ear], positions[ear], FALSE>>

\* line 131 returned True: lines 133-147 under the re-acquired mutex
DetSignal ==
  /\ w_pc = "det_wait" /\ notified /\ cv_owner = "free"
  /\ LET l == SignalEar(LEFT_EAR)
         r == SignalEar(RIGHT_EAR)
         res == [e \in EARS |->
                   IF e = LEFT_EAR THEN l
                   ELSE IF l[5] THEN <<targets[e], positions[e],
                                       current_positions[e], rising_age[e], FALSE>>
                   ELSE r]
         err == l[5] \/ r[5]
     IN /\ targets' = [e \in EARS |-> res[e][1]]
        /\ positions' = [e \in EARS |-> res[e][2]]
        /\ current_positions' = [e \in EARS |-> res[e][3]]
        /\ rising_age' = [e \in EARS |-> res[e][4]]
        /\ IF err
           THEN /\ w_pc' = "idle" /\ cv_owner' = "free"
                /\ ear_future' = "error"
           ELSE /\ w_pc' = "det_loop" /\ cv_owner' = "worker"
                /\ UNCHANGED ear_future
  /\ UNCHANGED <<directions, running, pins, notified, w_ear, w_tl, w_tr,
                 waited, ear_jobs, loopVars, obsVars>>
  /\ UNCHANGED <<callVars, soundVars>>

\* line 131 returned False: lines 150-162 under the re-acquired mutex
DetTimeout ==
  /\ w_pc = "det_wait" /\ ~notified /\ waited >= WAIT_TIMEOUT
  /\ cv_owner = "free"
  /\ LET l == TimeoutEar(LEFT_EAR)
         r == TimeoutEar(RIGHT_EAR)
         res == [e \in EARS |->
                   IF e = LEFT_EAR THEN l
                   ELSE IF l[3] THEN <<targets[e], positions[e], FALSE>>
                   ELSE r]
         err == l[3] \/ r[3]
     IN /\ targets' = [e \in EARS |-> res[e][1]]
        /\ positions' = [e \in EARS |-> res[e][2]]
        /\ IF err
           THEN /\ w_pc' = "idle" /\ cv_owner' = "free"
                /\ ear_future' = "error"
           ELSE /\ w_pc' = "det_loop" /\ cv_owner' = "worker"
                /\ UNCHANGED ear_future
  /\ UNCHANGED <<directions, running, pins, notified, w_ear, w_tl, w_tr,
                 current_positions, timeVars, ear_jobs, loopVars, obsVars>>
  /\ UNCHANGED <<callVars, soundVars>>

\* ------------------------------------------------ loop thread (lines 104-212)
\* reset_ears is called with no target or with the last hole as target
ResetTargets == {None, HOLES - 1}

Job(fn, tl, tr) == [fn |-> fn, tl |-> tl, tr |-> tr]

\* A caller enters go, detect_positions or reset_ears and takes the asyncio lock
\* (lines 105, 184, 196)
CallGo ==
  /\ op_pc = "idle" /\ ops_left > 0 /\ ~lock_held /\ lock_waiters = <<>>
  /\ lock_held' = TRUE
  /\ op' = [NoOp EXCEPT !.kind = "go"]
  /\ op_pc' = "go_check"
  /\ ops_left' = ops_left - 1
  /\ UNCHANGED <<seen, stray, strays_left, axisVars, cv_owner, notified, wVars, timeVars,
                 execVars, op_error, req, cold, starts, arrivals, norms>>
  /\ UNCHANGED <<counted, callVars, soundVars>>

CallDetectPositions ==
  /\ op_pc = "idle" /\ ops_left > 0 /\ ~lock_held /\ lock_waiters = <<>>
  /\ lock_held' = TRUE
  /\ op' = [NoOp EXCEPT !.kind = "detect"]
  /\ op_pc' = "detect_check"
  /\ ops_left' = ops_left - 1
  /\ UNCHANGED <<seen, stray, strays_left, axisVars, cv_owner, notified, wVars, timeVars,
                 execVars, op_error, req, cold, starts, arrivals, norms>>
  /\ UNCHANGED <<counted, callVars, soundVars>>

\* lines 105-106
CallResetEars(tl, tr) ==
  /\ op_pc = "idle" /\ ops_left > 0 /\ ~lock_held /\ lock_waiters = <<>>
  /\ lock_held' = TRUE
  /\ op' = [NoOp EXCEPT !.kind = "reset", !.tl = tl, !.tr = tr]
  /\ op_pc' = "await"
  /\ ops_left' = ops_left - 1
  /\ ear_jobs' = Append(ear_jobs, Job("reset", tl, tr))
  /\ ear_future' = "pending"
  /\ UNCHANGED <<seen, stray, strays_left, axisVars, cv_owner, notified, wVars, timeVars,
                 op_error, req, cold, starts, arrivals, norms>>
  /\ UNCHANGED <<counted, callVars, soundVars>>

\* lines 198-199
GoCheck ==
  /\ op_pc = "go_check"
  /\ IF positions[LEFT_EAR] = None \/ positions[RIGHT_EAR] = None
     THEN /\ ear_jobs' = Append(ear_jobs, Job("detect", 0, 0))
          /\ ear_future' = "pending"
          /\ op_pc' = "await"
     ELSE /\ op_pc' = "go_target"
          /\ UNCHANGED execVars
  /\ UNCHANGED <<axisVars, cv_owner, notified, wVars, timeVars,
                 lock_held, op, ops_left, op_error, obsVars>>
  /\ UNCHANGED <<callVars, soundVars>>

\* DetectCheck running the detection whatever the positions are
DetectCheckAlways ==
  /\ op_pc = "detect_check"
  /\ ear_jobs' = Append(ear_jobs, Job("detect", None, None))
  /\ ear_future' = "pending"
  /\ op_pc' = "await"
  /\ UNCHANGED <<lock_held, op>>
  /\ UNCHANGED <<axisVars, cv_owner, notified, wVars, timeVars,
                 ops_left, op_error, obsVars>>
  /\ UNCHANGED <<callVars, soundVars>>

\* lines 185-187
DetectCheck ==
  /\ op_pc = "detect_check"
  /\ IF positions[LEFT_EAR] = None \/ positions[RIGHT_EAR] = None
     THEN /\ ear_jobs' = Append(ear_jobs, Job("detect", None, None))
          /\ ear_future' = "pending"
          /\ op_pc' = "await"
          /\ UNCHANGED <<lock_held, op>>
     ELSE /\ op_pc' = "idle" /\ lock_held' = FALSE /\ op' = NoOp
          /\ UNCHANGED execVars
  /\ UNCHANGED <<axisVars, cv_owner, notified, wVars, timeVars,
                 ops_left, op_error, obsVars>>
  /\ UNCHANGED <<callVars, soundVars>>

\* The awaited future is done: go goes on with line 200, detect_positions and
\* reset_ears return; the worker's exception is raised in the caller.
Resume ==
  /\ op_pc = "await" /\ ear_future \in {"done", "error"}
  /\ ear_future' = "none"
  /\ op_error' = (op_error \/ ear_future = "error")
  /\ IF op.kind \in {"go", "move"} /\ ear_future = "done"
     THEN op_pc' = "go_target" /\ UNCHANGED <<lock_held, op>>
     ELSE op_pc' = "idle" /\ lock_held' = FALSE /\ op' = NoOp
  /\ UNCHANGED <<axisVars, cv_owner, notified, wVars, timeVars,
                 ear_jobs, ops_left, obsVars>>
  /\ UNCHANGED <<callVars, soundVars>>

\* line 200.  The arguments of go are first read here: the ear e, the position
\* p and the direction d of the call are drawn at this step; a call made by
\* move has them since line 166.
GoTarget(e, p, d) ==
  /\ op_pc = "go_target"
  /\ op.kind = "move" => (e = op.ear /\ p = op.position /\ d = op.direction)
  /\ op' = [op EXCEPT !.ear = e, !.position = p, !.direction = d]
  /\ targets' = [targets EXCEPT ![e] = p]
  /\ op_pc' = "go_compare"
  /\ req' = [req EXCEPT ![e] = IF running[e] THEN None ELSE p]
  /\ starts' = [starts EXCEPT ![e] = 0]
  /\ arrivals' = [arrivals EXCEPT ![e] = 0]
  /\ norms' = [norms EXCEPT ![e] = 0]
  /\ stray' = [stray EXCEPT ![e] = FALSE]
  /\ seen' = [seen EXCEPT ![e] = None]
  /\ counted' = [counted EXCEPT ![e] = None]
  /\ UNCHANGED <<strays_left, positions, directions, running, pins, cv_owner,
                 notified, wVars, timeVars, execVars, lock_held, ops_left,
                 op_error, cold>>
  /\ UNCHANGED <<callVars, soundVars>>

\* line 205
GoCompare ==
  /\ op_pc = "go_compare"
  /\ seen' = [seen EXCEPT ![op.ear] = positions[op.ear]]
  /\ op_pc' = (IF AtModularTarget(positions[op.ear], targets[op.ear])
               THEN "go_normalize" ELSE "go_low")
  /\ UNCHANGED <<axisVars, cv_owner, notified, wVars, timeVars,
                 execVars, lock_held, op, ops_left, op_error, strays_left, req,
                 stray, cold, starts, arrivals, norms>>
  /\ UNCHANGED <<counted, callVars, soundVars>>

\* GoNormalize without the return of line 211
GoNormalizeNoReturn ==
  /\ op_pc = "go_normalize"
  /\ targets' = [targets EXCEPT ![op.ear] = Normalize(targets[op.ear])]
  /\ op_pc' = "go_low"
  /\ UNCHANGED <<positions, directions, running, pins, cv_owner, notified,
                 wVars, timeVars, execVars, lock_held, op, ops_left, op_error,
                 obsVars>>
  /\ UNCHANGED <<callVars, soundVars>>

\* lines 206-211
GoNormalize ==
  /\ op_pc = "go_normalize"
  /\ IF Normalize(targets[op.ear]) # targets[op.ear]
     THEN /\ targets' = [targets EXCEPT ![op.ear] = Normalize(targets[op.ear])]
          /\ op_pc' = "go_low"
          /\ UNCHANGED <<lock_held, op>>
     ELSE /\ op_pc' = "idle" /\ lock_held' = FALSE /\ op' = NoOp
          /\ UNCHANGED targets
  /\ UNCHANGED <<positions, directions, running, pins, cv_owner, notified,
                 wVars, timeVars, execVars, ops_left, op_error, obsVars>>
  /\ UNCHANGED <<callVars, soundVars>>

\* line 212 -> line 96
GoStartLow ==
  /\ op_pc = "go_low"
  /\ cold' = [cold EXCEPT ![op.ear] = BothLow(op.ear)]
  /\ starts' = [starts EXCEPT ![op.ear] = Cap(starts[op.ear] + 1, 3)]
  /\ pins' = PinsAfterLow(op.ear, Increment(op.direction))
  /\ op_pc' = "go_high"
  /\ UNCHANGED <<seen, strays_left, positions, targets, directions, running, cv_owner, notified,
                 wVars, timeVars, execVars, lock_held, op, ops_left,
                 op_error, req, stray, arrivals, norms>>
  /\ UNCHANGED <<counted, callVars, soundVars>>

\* line 212 -> line 97
GoStartHigh ==
  /\ op_pc = "go_high"
  /\ pins' = PinsAfterHigh(op.ear, Increment(op.direction))
  /\ op_pc' = "go_run"
  /\ UNCHANGED <<positions, targets, directions, running, cv_owner, notified,
                 wVars, timeVars, execVars, lock_held, op, ops_left,
                 op_error, obsVars>>
  /\ UNCHANGED <<callVars, soundVars>>

\* line 212 -> line 98
GoStartRunning ==
  /\ op_pc = "go_run"
  /\ running' = [running EXCEPT ![op.ear] = TRUE]
  /\ op_pc' = "go_dir"
  /\ UNCHANGED <<positions, targets, directions, pins, cv_owner, notified,
                 wVars, timeVars, execVars, lock_held, op, ops_left,
                 op_error, obsVars>>
  /\ UNCHANGED <<callVars, soundVars>>

\* line 212 -> line 99, then go returns and the lock is released
GoStartDir ==
  /\ op_pc = "go_dir"
  /\ directions' = [directions EXCEPT ![op.ear] = Increment(op.direction)]
  /\ cold' = [cold EXCEPT ![op.ear] = FALSE]
  /\ op_pc' = "idle" /\ lock_held' = FALSE /\ op' = NoOp
  /\ UNCHANGED <<seen, strays_left, positions, targets, running, pins, cv_owner, notified, wVars, timeVars, execVars, ops_left, op_error, req, stray,
                 starts, arrivals, norms>>
  /\ UNCHANGED <<counted, callVars, soundVars>>

\* lines 101-102: on_move keeps the loop and the callback
OnMove ==
  /\ ~callback
  /\ callback' = TRUE
  /\ UNCHANGED <<axisVars, cv_owner, notified, wVars, timeVars, execVars,
                 loopVars, obsVars, moved, wait_pc, waits_left, wait_future,
                 lock_waiters, queued_left, soundVars>>

\* ------------------------------------- move and the asyncio lock (lines 165-166)
MoveDeltas == {1}

\* A call waiting for the lock.  go reads its arguments at line 200; move has
\* computed the position of its go call at line 166, before the lock is asked for.
Waiting(kind, e, delta, d) ==
  IF kind = "move"
  THEN [kind |-> "move", ear |-> e, position |-> targets[e] + delta, direction |-> d]
  ELSE [kind |-> "go", ear |-> NoOp.ear, position |-> NoOp.position,
        direction |-> NoOp.direction]

\* line 166 with the lock free: self.targets[motor] + delta is computed, which
\* raises TypeError for a target None, and go takes the lock at once
CallMove(e, delta, d) ==
  /\ op_pc = "idle" /\ ops_left > 0 /\ ~lock_held /\ lock_waiters = <<>>
  /\ ops_left' = ops_left - 1
  /\ IF targets[e] = None
     THEN /\ op_error' = TRUE
          /\ UNCHANGED <<lock_held, op, op_pc>>
     ELSE /\ lock_held' = TRUE
          /\ op' = [NoOp EXCEPT !.kind = "move", !.ear = e,
                                !.position = targets[e] + delta, !.direction = d]
          /\ op_pc' = "go_check"
          /\ UNCHANGED op_error
  /\ UNCHANGED <<axisVars, cv_owner, notified, wVars, timeVars, execVars,
                 obsVars, callVars, soundVars>>

\* Another task calls go or move while the operation that holds the lock
\* awaits the executor: asyncio.Lock.acquire appends it to its waiters
CallQueued(kind, e, delta, d) ==
  /\ op_pc = "await" /\ lock_held /\ queued_left > 0
  /\ queued_left' = queued_left - 1
  /\ IF kind = "move" /\ targets[e] = None
     THEN op_error' = TRUE /\ UNCHANGED lock_waiters
     ELSE /\ lock_waiters' = Append(lock_waiters, Waiting(kind, e, delta, d))
          /\ UNCHANGED op_error
  /\ UNCHANGED <<axisVars, cv_owner, notified, wVars, timeVars, execVars,
                 lock_held, op, op_pc, ops_left, obsVars, callback, moved,
                 wait_pc, waits_left, wait_future, soundVars>>

\* asyncio.Lock.release wakes the oldest waiter, which takes the lock (line 196)
Admit ==
  /\ op_pc = "idle" /\ ~lock_held /\ lock_waiters # <<>>
  /\ lock_held' = TRUE
  /\ op' = [NoOp EXCEPT !.kind = Head(lock_waiters).kind,
                        !.ear = Head(lock_waiters).ear,
                        !.position = Head(lock_waiters).position,
                        !.direction = Head(lock_waiters).direction]
  /\ op_pc' = "go_check"
  /\ lock_waiters' = Tail(lock_waiters)
  /\ UNCHANGED <<axisVars, cv_owner, notified, wVars, timeVars, execVars,
                 ops_left, op_error, obsVars, callback, moved, wait_pc,
                 waits_left, wait_future, queued_left, soundVars>>

\* -------------------------------------- wait_while_running (lines 168-178)
\* line 169: the job is queued without taking the asyncio lock; the loop
\* thread is free when no ear operation is between two of its awaits
CallWait ==
  /\ wait_pc = "idle" /\ waits_left > 0 /\ op_pc \in {"idle", "await"}
  /\ waits_left' = waits_left - 1
  /\ wait_pc' = "await"
  /\ wait_future' = "pending"
  /\ ear_jobs' = Append(ear_jobs, Job("wait", None, None))
  /\ UNCHANGED <<axisVars, cv_owner, notified, wVars, timeVars, ear_future,
                 loopVars, obsVars, callback, moved, lock_waiters, queued_left,
                 soundVars>>

\* line 176
WwrLock ==
  /\ w_pc = "wwr_lock" /\ cv_owner = "free"
  /\ cv_owner' = "worker"
  /\ w_pc' = "wwr_loop"
  /\ UNCHANGED <<axisVars, notified, w_ear, w_tl, w_tr, current_positions,
                 timeVars, execVars, loopVars, obsVars, callVars, soundVars>>

\* lines 177-178: the loop test; wait() releases the mutex and has no timeout.
\* Otherwise the with block ends, the job returns and its future completes.
WwrLoop ==
  /\ w_pc = "wwr_loop"
  /\ cv_owner' = "free"
  /\ notified' = FALSE
  /\ IF running[LEFT_EAR] \/ running[RIGHT_EAR]
     THEN w_pc' = "wwr_wait" /\ UNCHANGED wait_future
     ELSE w_pc' = "idle" /\ wait_future' = "done"
  /\ UNCHANGED <<axisVars, w_ear, w_tl, w_tr, current_positions, timeVars,
                 execVars, loopVars, obsVars, callback, moved, wait_pc,
                 waits_left, lock_waiters, queued_left, soundVars>>

\* line 178 returns: the waiter was notified and has the mutex again
WwrWake ==
  /\ w_pc = "wwr_wait" /\ notified /\ cv_owner = "free"
  /\ cv_owner' = "worker"
  /\ w_pc' = "wwr_loop"
  /\ UNCHANGED <<axisVars, notified, w_ear, w_tl, w_tr, current_positions,
                 timeVars, execVars, loopVars, obsVars, callVars, soundVars>>

\* line 169 returns to the caller of wait_while_running
WaitResume ==
  /\ wait_pc = "await" /\ wait_future = "done" /\ op_pc \in {"idle", "await"}
  /\ wait_pc' = "idle"
  /\ wait_future' = "none"
  /\ UNCHANGED <<axisVars, cv_owner, notified, wVars, timeVars, execVars,
                 loopVars, obsVars, callback, moved, waits_left, lock_waiters,
                 queued_left, soundVars>>

\* ===================================================== nabd/sound_alsa.py
TASKS == 1 .. NumTasks
FutIds == 1 .. (NumTasks * MaxCalls)

\* lines 99 and 115: periodsize * channels * width
ChunkSize == PeriodSize * Channels * Width

\* The bytes of a stream are named by their place in it, 1, 2, ...; a byte
\* of silence is 0.
Range(off, n) == [i \in 1 .. n |-> off + i]

\* bytearray(n)
Zeros(n) == [i \in 1 .. n |-> 0]

Min(a, b) == IF a < b THEN a ELSE b

Max(a, b) == IF a < b THEN b ELSE a

RECURSIVE Sum(_)
Sum(sizes) == IF sizes = <<>> THEN 0 ELSE Head(sizes) + Sum(Tail(sizes))

RECURSIVE Concat(_)
Concat(chunks) == IF chunks = <<>> THEN <<>> ELSE Head(chunks) \o Concat(Tail(chunks))

\* A file is its format and the sizes of its decoded frames; a WAV file is
\* read by readframes and has one size, its length.
NoFile == [fmt |-> "none", frames |-> <<>>]

WavFiles == {[fmt |-> "wav", frames |-> <<n>>] : n \in 0 .. MaxWav}

Mp3Files ==
  {[fmt |-> "mp3", frames |-> fr] :
     fr \in UNION {[1 .. n -> 1 .. MaxFrame] : n \in 0 .. MaxFrames}}

Files == WavFiles \cup Mp3Files

\* lines 98 and 107: f.readframes(periodsize) after off bytes of the stream
ReadFrames(file, off) == Range(off, Min(ChunkSize, Sum(file.frames) - off))

\* line 117: the i-th frame of mp3.iter_frames()
FrameBytes(file, i) == Range(Sum(SubSeq(file.frames, 1, i - 1)), file.frames[i])

\* lines 101-105 and 131-132: data + bytearray(chunksize - len(data))
Pad(d) == IF Len(d) < ChunkSize THEN d \o Zeros(ChunkSize - Len(d)) ELSE d

\* Python's s[:r], r of either sign
PyPrefix(s, r) ==
  SubSeq(s, 1, IF r >= 0 THEN Min(r, Len(s)) ELSE Max(Len(s) + r, 0))

\* Python's s[r:], r of either sign
PySuffix(s, r) ==
  SubSeq(s, (IF r >= 0 THEN Min(r, Len(s)) ELSE Max(Len(s) + r, 0)) + 1, Len(s))

NoJob == [kind |-> "none", fut |-> None, file |-> NoFile]

NoCall == [fn |-> "none", file |-> NoFile]

Fns == {"start_playing_preloaded", "stop_playing", "wait_until_done",
        "start_recording", "stop_recording"}

\* A device operation works, or raises while faults are left
Faults == IF faults_left > 0 THEN BOOLEAN ELSE {FALSE}

\* lines 30-33, with ncalls[t] calls to come from task t
SoundInit(ncalls) ==
  /\ future = None
  /\ currently_playing = FALSE /\ currently_recording = FALSE
  /\ fut_state = [f \in FutIds |-> "unused"]
  /\ audio_jobs = <<>>
  /\ s_pc = "idle" /\ s_job = NoJob /\ device = "unbound" /\ s_exc = FALSE
  /\ data = <<>> /\ chunk = <<>> /\ s_next = 0 /\ written = <<>> /\ s_cut = FALSE
  /\ reads = 0 /\ cb_log = <<>>
  /\ faults_left = MaxFaults /\ fault_at = "none"
  /\ t_pc = [t \in TASKS |-> "idle"]
  /\ t_call = [t \in TASKS |-> NoCall]
  /\ t_await = [t \in TASKS |-> None]
  /\ t_left = ncalls
  /\ t_result = [t \in TASKS |-> "none"]
  /\ waiters = [f \in FutIds |-> <<>>]
  /\ ready = <<>>

\* ------------------------------------------------ asyncio tasks (lines 82-85, 156-169, 193-196)
\* run_in_executor makes the next future
NextFuture == CHOOSE f \in FutIds : fut_state[f] = "unused" /\ \A g \in FutIds : g < f => fut_state[g] # "unused"

\* line 164, then what the caller of stop_playing does next: lines 84-85 of
\* start_playing_preloaded, lines 168-169 of start_recording; cp and cr are
\* the flags as the call has them so far
Continue(t, fn, f, cp, cr) ==
  /\ t_pc' = [t_pc EXCEPT ![t] = "idle"]
  /\ t_result' = [t_result EXCEPT ![t] = "returned"]
  /\ IF fn = "start_playing_preloaded"
     THEN /\ currently_playing' = TRUE /\ currently_recording' = cr
          /\ future' = NextFuture
          /\ fut_state' = [fut_state EXCEPT ![NextFuture] = "pending"]
          /\ audio_jobs' = Append(audio_jobs,
                                  [kind |-> "play", fut |-> NextFuture, file |-> f])
     ELSE IF fn = "start_recording"
     THEN /\ currently_recording' = TRUE /\ currently_playing' = cp
          /\ future' = NextFuture
          /\ fut_state' = [fut_state EXCEPT ![NextFuture] = "pending"]
          /\ audio_jobs' = Append(audio_jobs,
                                  [kind |-> "record", fut |-> NextFuture, file |-> NoFile])
     ELSE /\ currently_playing' = cp /\ currently_recording' = cr
          /\ future' = None
          /\ UNCHANGED <<fut_state, audio_jobs>>

\* A task calls fn and runs it to its first suspension: lines 157-158 or
\* 194-195, then lines 162-163; an await of a finished future does not suspend
Call(t, fn, f) ==
  /\ t_pc[t] = "idle" /\ t_left[t] > 0
  /\ t_left' = [t_left EXCEPT ![t] = @ - 1]
  /\ LET cp == IF fn \in {"start_playing_preloaded", "stop_playing", "start_recording"}
               THEN FALSE ELSE currently_playing
         cr == IF fn = "stop_recording" THEN FALSE ELSE currently_recording
     IN IF future # None /\ fut_state[future] = "pending"
        THEN /\ t_pc' = [t_pc EXCEPT ![t] = "wait"]
             /\ t_call' = [t_call EXCEPT ![t] = [fn |-> fn, file |-> f]]
             /\ t_await' = [t_await EXCEPT ![t] = future]
             /\ t_result' = [t_result EXCEPT ![t] = "none"]
             /\ waiters' = [waiters EXCEPT ![future] = Append(@, t)]
             /\ currently_playing' = cp /\ currently_recording' = cr
             /\ UNCHANGED <<sessVars, ready>>
        ELSE IF future # None /\ fut_state[future] = "raised"
        THEN /\ t_result' = [t_result EXCEPT ![t] = "raised"]
             /\ t_call' = [t_call EXCEPT ![t] = [fn |-> fn, file |-> NoFile]]
             /\ currently_playing' = cp /\ currently_recording' = cr
             /\ UNCHANGED <<sessVars, t_pc, t_await, waiters, ready>>
        ELSE /\ Continue(t, fn, f, cp, cr)
             /\ t_call' = [t_call EXCEPT ![t] = [fn |-> fn, file |-> NoFile]]
             /\ UNCHANGED <<t_await, waiters, ready>>
  /\ UNCHANGED <<s_pc, s_job, device, s_exc, playVars, recVars, faults_left, fault_at>>
  /\ UNCHANGED earVars

\* The loop resumes the task at the head of its queue: line 163 returns or
\* raises what the future holds
TaskResume(t) ==
  /\ ready # <<>> /\ Head(ready) = t
  /\ ready' = Tail(ready)
  /\ t_call' = [t_call EXCEPT ![t] = [fn |-> @.fn, file |-> NoFile]]
  /\ IF fut_state[t_await[t]] = "raised"
     THEN /\ t_pc' = [t_pc EXCEPT ![t] = "idle"]
          /\ t_result' = [t_result EXCEPT ![t] = "raised"]
          /\ UNCHANGED <<flagVars, sessVars>>
     ELSE Continue(t, t_call[t].fn, t_call[t].file,
                   currently_playing, currently_recording)
  /\ UNCHANGED <<t_await, t_left, waiters>>
  /\ UNCHANGED <<s_pc, s_job, device, s_exc, playVars, recVars, faults_left, fault_at>>
  /\ UNCHANGED earVars

\* The future of a job completes, with the exception that left the job if
\* there is one: the tasks awaiting it are scheduled in the order they began
\* to wait
Complete(id, exc) ==
  /\ fut_state' = [fut_state EXCEPT ![id] = IF exc THEN "raised" ELSE "done"]
  /\ ready' = ready \o waiters[id]
  /\ waiters' = [waiters EXCEPT ![id] = <<>>]
  /\ t_pc' = [t \in TASKS |->
                IF t_pc[t] = "wait" /\ t_await[t] = id THEN "ready" ELSE t_pc[t]]

\* ------------------------------------------------------ the audio worker
\* SoundTake by an executor with a thread to spare: a job is taken while
\* another one runs
SoundTakeBusy ==
  /\ audio_jobs # <<>>
  /\ s_job' = Head(audio_jobs)
  /\ audio_jobs' = Tail(audio_jobs)
  /\ s_pc' = IF Head(audio_jobs).kind = "play" THEN "play_open" ELSE "rec_open"
  /\ device' = "unbound" /\ s_exc' = FALSE
  /\ data' = <<>> /\ chunk' = <<>> /\ s_next' = 0 /\ written' = <<>> /\ s_cut' = FALSE
  /\ reads' = 0 /\ cb_log' = <<>>
  /\ UNCHANGED <<flagVars, future, fut_state, faults_left, fault_at, taskVars>>
  /\ UNCHANGED earVars

\* The single thread of the executor takes the next job
SoundTake ==
  /\ s_pc = "idle" /\ audio_jobs # <<>>
  /\ s_job' = Head(audio_jobs)
  /\ audio_jobs' = Tail(audio_jobs)
  /\ s_pc' = IF Head(audio_jobs).kind = "play" THEN "play_open" ELSE "rec_open"
  /\ device' = "unbound" /\ s_exc' = FALSE
  /\ data' = <<>> /\ chunk' = <<>> /\ s_next' = 0 /\ written' = <<>> /\ s_cut' = FALSE
  /\ reads' = 0 /\ cb_log' = <<>>
  /\ UNCHANGED <<flagVars, future, fut_state, faults_left, fault_at, taskVars>>
  /\ UNCHANGED earVars

\* lines 89-99 and 109-116: open and set up the device, read the first data
PlayOpen ==
  /\ s_pc = "play_open"
  /\ \E fault \in Faults :
       IF fault
       THEN /\ s_exc' = TRUE /\ s_pc' = "play_finally"
            /\ faults_left' = faults_left - 1
            /\ fault_at' = "open"
            /\ UNCHANGED <<device, data, s_next>>
       ELSE /\ device' = "open"
            /\ IF s_job.file.fmt = "wav"
               THEN /\ data' = ReadFrames(s_job.file, 0)
                    /\ s_next' = Len(ReadFrames(s_job.file, 0))
                    /\ s_pc' = "wav_loop"
               ELSE /\ s_pc' = "mp3_loop"
                    /\ UNCHANGED <<data, s_next>>
            /\ UNCHANGED <<s_exc, faults_left, fault_at>>
  /\ UNCHANGED <<flagVars, sessVars, s_job, chunk, written, s_cut, recVars, taskVars>>
  /\ UNCHANGED earVars

\* lines 100-107: one turn of the WAV loop
WavLoop ==
  /\ s_pc = "wav_loop"
  /\ IF data # <<>> /\ currently_playing
     THEN \E fault \in Faults :
            IF fault
            THEN /\ s_exc' = TRUE /\ s_pc' = "play_finally"
                 /\ faults_left' = faults_left - 1
                 /\ fault_at' = "write"
                 /\ UNCHANGED <<data, s_next, written, s_cut>>
            ELSE /\ written' = Append(written, Pad(data))
                 /\ data' = ReadFrames(s_job.file, s_next)
                 /\ s_next' = s_next + Len(ReadFrames(s_job.file, s_next))
                 /\ UNCHANGED <<s_pc, s_exc, faults_left, fault_at, s_cut>>
     ELSE /\ s_pc' = "play_finally"
          /\ s_cut' = (data # <<>>)
          /\ UNCHANGED <<s_exc, faults_left, fault_at, data, s_next, written>>
  /\ UNCHANGED <<flagVars, sessVars, s_job, device, chunk, recVars, taskVars>>
  /\ UNCHANGED earVars

\* lines 117-127: one frame of the MP3 loop
Mp3Loop ==
  /\ s_pc = "mp3_loop"
  /\ IF s_next < Len(s_job.file.frames)
     THEN LET frame == FrameBytes(s_job.file, s_next + 1)
              remaining == ChunkSize - Len(chunk)
              more == s_next + 1 < Len(s_job.file.frames)
          IN IF Len(chunk) + Len(frame) < ChunkSize
             THEN /\ chunk' = chunk \o frame
                  /\ s_next' = s_next + 1
                  /\ s_pc' = IF currently_playing THEN "mp3_loop" ELSE "mp3_tail"
                  /\ s_cut' = (~currently_playing /\ more)
                  /\ UNCHANGED <<written, s_exc, faults_left, fault_at>>
             ELSE \E fault \in Faults :
                    IF fault
                    THEN /\ s_exc' = TRUE /\ s_pc' = "play_finally"
                         /\ faults_left' = faults_left - 1
                         /\ fault_at' = "write"
                         /\ UNCHANGED <<chunk, s_next, written, s_cut>>
                    ELSE /\ written' = Append(written, chunk \o PyPrefix(frame, remaining))
                         /\ chunk' = PySuffix(frame, remaining)
                         /\ s_next' = s_next + 1
                         /\ s_pc' = IF currently_playing THEN "mp3_loop" ELSE "mp3_tail"
                         /\ s_cut' = (~currently_playing /\ more)
                         /\ UNCHANGED <<s_exc, faults_left, fault_at>>
     ELSE /\ s_pc' = "mp3_tail"
          /\ UNCHANGED <<chunk, s_next, written, s_cut, s_exc, faults_left, fault_at>>
  /\ UNCHANGED <<flagVars, sessVars, s_job, device, data, recVars, taskVars>>
  /\ UNCHANGED earVars

\* lines 130-133: the last chunk; bytearray raises ValueError for a negative size
Mp3Tail ==
  /\ s_pc = "mp3_tail"
  /\ s_pc' = "play_finally"
  /\ IF Len(chunk) > 0
     THEN IF ChunkSize - Len(chunk) < 0
          THEN /\ s_exc' = TRUE
               /\ UNCHANGED <<written, faults_left, fault_at>>
          ELSE \E fault \in Faults :
                 IF fault
                 THEN /\ s_exc' = TRUE
                      /\ faults_left' = faults_left - 1
                      /\ fault_at' = "write"
                      /\ UNCHANGED written
                 ELSE /\ written' = Append(written, Pad(chunk))
                      /\ UNCHANGED <<s_exc, faults_left, fault_at>>
     ELSE UNCHANGED <<written, s_exc, faults_left, fault_at>>
  /\ UNCHANGED <<flagVars, sessVars, s_job, device, data, chunk, s_next, s_cut,
                 recVars, taskVars>>
  /\ UNCHANGED earVars

\* line 135
PlayFinally ==
  /\ s_pc = "play_finally"
  /\ currently_playing' = FALSE
  /\ s_pc' = "play_close"
  /\ UNCHANGED <<currently_recording, sessVars, s_job, device, s_exc, playVars,
                 recVars, faults_left, fault_at, taskVars>>
  /\ UNCHANGED earVars

\* line 136, where device is unbound when line 89 raised; then _play returns
\* or the exception leaves it, and its future completes
PlayClose ==
  /\ s_pc = "play_close"
  /\ device' = IF device = "open" THEN "closed" ELSE device
  /\ s_exc' = (s_exc \/ device = "unbound")
  /\ Complete(s_job.fut, s_exc \/ device = "unbound")
  /\ s_pc' = "idle"
  /\ s_job' = NoJob
  /\ data' = <<>> /\ chunk' = <<>> /\ s_next' = 0 /\ written' = <<>> /\ s_cut' = FALSE
  /\ UNCHANGED <<flagVars, future, audio_jobs, recVars, faults_left, fault_at,
                 t_call, t_await, t_left, t_result>>
  /\ UNCHANGED earVars

\* lines 172-179; an exception is caught at line 186
RecOpen ==
  /\ s_pc = "rec_open"
  /\ \E fault \in Faults :
       IF fault
       THEN /\ s_exc' = TRUE /\ s_pc' = "rec_finally"
            /\ faults_left' = faults_left - 1
            /\ fault_at' = "open"
            /\ UNCHANGED device
       ELSE /\ device' = "open" /\ s_pc' = "rec_loop"
            /\ UNCHANGED <<s_exc, faults_left, fault_at>>
  /\ UNCHANGED <<flagVars, sessVars, s_job, playVars, recVars, taskVars>>
  /\ UNCHANGED earVars

\* What inp.read() gives: a period, an overrun (a negative size and no
\* data), or an exception
ReadOutcomes == {"period", "overrun"} \cup (IF faults_left > 0 THEN {"error"} ELSE {})

\* lines 180-185: one turn of the recording loop
RecLoop ==
  /\ s_pc = "rec_loop"
  /\ reads < MaxReads \/ ~currently_recording
  /\ \E outcome \in ReadOutcomes :
       IF outcome = "error"
       THEN /\ s_exc' = TRUE /\ s_pc' = "rec_finally"
            /\ faults_left' = faults_left - 1
            /\ fault_at' = "read"
            /\ UNCHANGED recVars
       ELSE LET l == IF outcome = "period" THEN RECORD_PERIOD ELSE Overrun
                bytes == IF outcome = "period" THEN RECORD_PERIOD * SAMPLE_BYTES ELSE 0
                finalize == ~currently_recording
            IN /\ cb_log' = IF l # 0 \/ finalize
                            THEN Append(cb_log, [len |-> bytes, final |-> finalize,
                                                 flag |-> currently_recording])
                            ELSE cb_log
               /\ reads' = Min(reads + 1, MaxReads)
               /\ s_pc' = IF finalize THEN "rec_finally" ELSE "rec_loop"
               /\ UNCHANGED <<s_exc, faults_left, fault_at>>
  /\ UNCHANGED <<flagVars, sessVars, s_job, device, playVars, taskVars>>
  /\ UNCHANGED earVars

\* line 189
RecFinally ==
  /\ s_pc = "rec_finally"
  /\ currently_recording' = FALSE
  /\ s_pc' = "rec_close"
  /\ UNCHANGED <<currently_playing, sessVars, s_job, device, s_exc, playVars,
                 recVars, faults_left, fault_at, taskVars>>
  /\ UNCHANGED earVars

\* lines 190-191; then _record returns and its future completes
RecClose ==
  /\ s_pc = "rec_close"
  /\ device' = IF device = "open" THEN "closed" ELSE device
  /\ Complete(s_job.fut, FALSE)
  /\ s_pc' = "idle"
  /\ s_job' = NoJob
  /\ reads' = 0 /\ cb_log' = <<>>
  /\ UNCHANGED <<flagVars, future, audio_jobs, s_exc, playVars, faults_left, fault_at,
                 t_call, t_await, t_left, t_result>>
  /\ UNCHANGED earVars

\* ------------------------------------------------------------ specification
Worker ==
  \/ WorkerTake \/ DoResetEars
  \/ DetCheck \/ DetPosition \/ DetTarget
  \/ DetStartLow \/ DetStartHigh \/ DetStartRunning \/ DetStartDir
  \/ DetTime \/ DetLock \/ DetLoop \/ Tick \/ DetSignal \/ DetTimeout

Loop ==
  \/ CallGo \/ CallDetectPositions
  \/ \E tl \in ResetTargets, tr \in ResetTargets : CallResetEars(tl, tr)
  \/ GoCheck \/ DetectCheck \/ Resume
  \/ \E e \in EARS, p \in Requests, d \in BOOLEAN : GoTarget(e, p, d)
  \/ GoCompare \/ GoNormalize
  \/ GoStartLow \/ GoStartHigh \/ GoStartRunning \/ GoStartDir

Edge == \E e \in EARS : EncoderCb(e)

Next == Edge \/ Worker \/ Loop

Init ==
  /\ InitWith(RestStates, MaxOps, MaxStray)
  /\ CallersInit(TRUE, 0, 0)
  /\ SoundInit([t \in TASKS |-> 0])

Spec == Init /\ [][Next]_vars

\* Re-targeting: the ears as __init__ leaves them, with on_move still to be
\* called, one operation more than in Spec, and no edge but those of a
\* started motor.
NextSeek == Next \/ OnMove

InitSeek ==
  /\ InitWith({[pos |-> 0, tgt |-> 0, dir |-> 1]}, MaxOps + 1, 0)
  /\ CallersInit(FALSE, 0, 0)
  /\ SoundInit([t \in TASKS |-> 0])

SpecSeek == InitSeek /\ [][NextSeek]_vars

\* Several tasks call go and move: beside the operations of Spec, move, and
\* calls of go and move made by other tasks while the lock is held.
\* An ear starts as __init__ leaves it, or with its position forgotten (lines
\* 60-61) so that go runs a detection first.
Movers ==
  \/ \E e \in EARS, delta \in MoveDeltas, d \in BOOLEAN : CallMove(e, delta, d)
  \/ \E kind \in {"go", "move"}, e \in EARS, delta \in MoveDeltas, d \in BOOLEAN :
       CallQueued(kind, e, delta, d)
  \/ Admit

NextMove == Next \/ Movers

InitMove ==
  /\ InitWith({[pos |-> 0, tgt |-> 0, dir |-> 1],
               [pos |-> None, tgt |-> 0, dir |-> 0]}, MaxOps, 0)
  /\ CallersInit(TRUE, 0, MaxQueued)
  /\ SoundInit([t \in TASKS |-> 0])

SpecMove == InitMove /\ [][NextMove]_vars

\* A task calls wait_while_running beside the operations of Spec.
Waiter == CallWait \/ WwrLock \/ WwrLoop \/ WwrWake \/ WaitResume

NextWait == Next \/ Waiter

InitWait ==
  /\ InitWith({[pos |-> 0, tgt |-> 0, dir |-> 1]}, MaxOps, MaxStray)
  /\ CallersInit(TRUE, MaxWaits, 0)
  /\ SoundInit([t \in TASKS |-> 0])

SpecWait == InitWait /\ [][NextWait]_vars

\* The audio engine, called by NumTasks tasks of the loop, with both ears
\* as __init__ leaves them.  The files played hold one full period and a
\* partial one.
SessionFiles ==
  {[fmt |-> "wav", frames |-> <<ChunkSize + 1>>],
   [fmt |-> "mp3", frames |-> <<ChunkSize, 1>>]}

Tasks ==
  \/ \E t \in TASKS, fn \in Fns :
       \E f \in (IF fn = "start_playing_preloaded" THEN SessionFiles ELSE {NoFile}) :
         Call(t, fn, f)
  \/ \E t \in TASKS : TaskResume(t)

PlayWorker ==
  \/ SoundTake
  \/ PlayOpen \/ WavLoop \/ Mp3Loop \/ Mp3Tail \/ PlayFinally \/ PlayClose

RecordWorker == RecOpen \/ RecLoop \/ RecFinally \/ RecClose

NextSound == Tasks \/ PlayWorker \/ RecordWorker

EarsBuilt ==
  /\ InitWith({[pos |-> 0, tgt |-> 0, dir |-> 1]}, 0, 0)
  /\ CallersInit(FALSE, 0, 0)

InitSound == EarsBuilt /\ SoundInit([t \in TASKS |-> MaxCalls])

SpecSound == InitSound /\ [][NextSound]_vars

\* Playback alone: one task plays any of the files and stops them
PlayTasks ==
  \/ \E t \in TASKS, f \in Files : Call(t, "start_playing_preloaded", f)
  \/ \E t \in TASKS : Call(t, "stop_playing", NoFile)
  \/ \E t \in TASKS : TaskResume(t)

NextPlay == PlayTasks \/ PlayWorker

InitPlay == EarsBuilt /\ SoundInit([t \in TASKS |-> IF t = 1 THEN MaxCalls ELSE 0])

SpecPlay == InitPlay /\ [][NextPlay]_vars

\* ------------------------------------------------------------------ claims
InRange(p) == p \in 0 .. (HOLES - 1)

\* The callback stops the motor of ear e in this step
Stops(e) == running[e] /\ ~running'[e]

\* C1: when the motor that go(axis, p, direction) started on a stopped axis is
\* stopped by the encoder callback, positions[axis] is p mod STEPS, for every
\* start position, every requested p (inside or outside [0, STEPS)) and both
\* directions.
C1_SeekEndsAtRequest ==
  [][\A e \in EARS :
       (Stops(e) /\ req[e] # None) => positions'[e] = req[e] % HOLES]_vars

\* A seek with a target beyond one turn has been started by go and stopped
C1_Witness ==
  \E e \in EARS :
    /\ req[e] # None /\ ~InRange(req[e])
    /\ starts[e] = 1 /\ arrivals[e] >= 1
    /\ ~running[e] /\ directions[e] = 0
    /\ positions[e] = req[e] % HOLES

\* The case of C2: go on a stopped axis with p in [STEPS, 2*STEPS) that found
\* the known position different from p mod STEPS
MultiTurn(e) ==
  /\ req[e] \in HOLES .. (2 * HOLES - 1)
  /\ InRange(seen[e]) /\ seen[e] # req[e] % HOLES

\* C2: in a multi-turn seek the motor is started once, the first edge that
\* brings the position to p mod STEPS leaves the motor running and normalises
\* the target once from p to p - STEPS, and the motor is stopped exactly on
\* the second arrival at p mod STEPS.
C2_MultiTurnSeek ==
  [][\A e \in EARS : MultiTurn(e) =>
       /\ (arrivals[e] = 0 /\ arrivals'[e] = 1) =>
            /\ running'[e] = running[e] /\ pins'[e] = pins[e]
            /\ targets[e] = req[e] /\ targets'[e] = req[e] - HOLES
            /\ norms'[e] = 1
       /\ (arrivals[e] = 1 /\ arrivals'[e] = 2) =>
            /\ Stops(e) /\ pins'[e] = [i \in 0..1 |-> LOW]
       /\ Stops(e) => (arrivals[e] = 1 /\ arrivals'[e] = 2)
       /\ starts'[e] <= 1 /\ norms'[e] <= 1]_vars

\* A multi-turn seek has ended on its second arrival
C2_Witness ==
  \E e \in EARS :
    /\ MultiTurn(e) /\ arrivals[e] = 2 /\ norms[e] = 1 /\ starts[e] = 1
    /\ ~running[e] /\ positions[e] = req[e] % HOLES

\* go read, at line 205, the position q it was asked for, with q in [0, STEPS)
AlreadyThere(e) == req[e] # None /\ InRange(req[e]) /\ seen[e] = req[e]

\* C3: go(axis, q, direction) on an axis stopped at q in [0, STEPS) actuates
\* nothing: _start_motor is not called, so no motor pin is written and the
\* axis stays not running; the step go takes after line 205 returns and
\* leaves pins, running, directions and positions as they are; unless the
\* ear is turned by hand meanwhile, its position stays q.  When go finds the
\* axis at target mod STEPS, it starts the motor only for a target outside
\* [0, STEPS), after normalising that target by one STEPS.
C3_GoIsIdempotent ==
  /\ [](\A e \in EARS : AlreadyThere(e) =>
          /\ starts[e] = 0
          /\ ~running[e] /\ BothLow(e)
          /\ targets[e] = req[e]
          /\ ~stray[e] => (positions[e] = req[e] /\ arrivals[e] = 0))
  /\ [](\A e \in EARS :
          (req[e] # None /\ InRange(seen[e]) /\ seen[e] = req[e] % HOLES
             /\ starts[e] >= 1) =>
          /\ ~InRange(req[e])
          /\ arrivals[e] = 0 => targets[e] = Normalize(req[e]))
  /\ [][\A e \in EARS :
          (op_pc = "go_normalize" /\ op.ear = e /\ AlreadyThere(e)
             /\ op_pc' # op_pc) =>
            /\ op_pc' = "idle"
            /\ pins' = pins /\ running' = running
            /\ directions' = directions /\ positions' = positions]_vars

\* go has returned from a call that found the axis where it was asked to be
C3_Witness ==
  \E e \in EARS : AlreadyThere(e) /\ op_pc = "idle" /\ ops_left = 0

\* The detection loop wakes up in this step (line 131 returns)
Wakes == w_pc = "det_wait" /\ w_pc' # "det_wait"

\* Ear e is examined by the branch taken: lines 135 and 152
Examined(e) ==
  /\ targets[e] = None
  /\ notified => positions[e] # current_positions[e]

\* Lines 144 and 161 raise for this ear: its position is None and the caller
\* gave no target
Raises(e) == positions[e] = None /\ CallerTarget(e, w_tl, w_tr) = None

\* C4 (as the code has it): an examined homing ear keeps target None while
\* the measured delta is at most 0.4 s; a delta above 0.4 s marks the gap
\* found: the target becomes the caller's target, or the computed one, and
\* the position becomes directions[ear] when an edge was signalled and 0 when
\* the wait timed out.  The homed axis stops at the caller's target when one
\* was given.  When the gap is found on an ear whose position is None (an
\* edge reached it while its direction was 0) and the caller gave no target,
\* lines 144 and 161 raise and the detection ends with that error.
C4_HomingThreshold ==
  [][/\ Wakes =>
          \A e \in EARS : Examined(e) =>
            /\ rising_age[e] <= GAP_DELTA => targets'[e] = None
            /\ (rising_age[e] > GAP_DELTA /\ Raises(e)) => ear_future' = "error"
            /\ (rising_age[e] > GAP_DELTA /\ ~Raises(e) /\ ear_future' # "error") =>
                 /\ targets'[e] # None
                 /\ positions'[e] = (IF notified THEN directions[e] ELSE 0)
                 /\ targets'[e] =
                      (IF CallerTarget(e, w_tl, w_tr) # None
                       THEN CallerTarget(e, w_tl, w_tr)
                       ELSE IF notified
                       THEN (directions[e] - positions[e]) % HOLES
                       ELSE (0 - positions[e]) % HOLES)
     /\ \A e \in EARS :
          (Stops(e) /\ w_pc \in {"det_wait", "det_loop"} /\ req[e] = None
             /\ CallerTarget(e, w_tl, w_tr) # None
             /\ targets[e] = CallerTarget(e, w_tl, w_tr)) =>
            positions'[e] = CallerTarget(e, w_tl, w_tr)]_vars

\* C4 as claimed: a delta of at least 0.4 s marks the gap found and the
\* position is then resolved to 0.
C4_AsClaimed ==
  [][Wakes =>
       \A e \in EARS : (Examined(e) /\ rising_age[e] >= GAP_DELTA) =>
         (targets'[e] # None /\ positions'[e] = 0)]_vars

\* The gap of an ear has been found at a signalled edge, after an earlier
\* wake-up that left it unfound
C4_Witness ==
  \E e \in EARS :
    /\ w_pc = "det_loop" /\ targets[e] # None /\ running[e]
    /\ positions[e] = directions[e] /\ current_positions[e] = positions[e]
    /\ req[e] = None /\ directions[e] = FORWARD_INCREMENT

\* Both positions are known integers of [0, STEPS)
Known == \A e \in EARS : InRange(positions[e])

\* _run_detection returns in this step (line 163)
DetectionReturns == w_pc # "idle" /\ w_pc' = "idle" /\ ear_future' = "done"

\* C10 as claimed: when go or detect_positions is called while a position is
\* unknown, a detection runs on the worker before line 200 of go, no error
\* reaches the caller, and when the detection returns both motors are stopped
\* and both positions are known integers of [0, STEPS).
C10_AsClaimed ==
  [][op.kind \in {"go", "detect"} =>
       /\ ear_future' # "error" /\ ~op_error'
       /\ DetectionReturns => (Known' /\ \A e \in EARS : ~running'[e])
       /\ (op_pc # "go_target" /\ op_pc' = "go_target") => Known']_vars

\* The playback in progress has run through its whole stream: it was not
\* stopped and nothing raised
PlayedOut ==
  /\ s_job.kind = "play" /\ s_pc = "play_finally"
  /\ ~s_exc /\ ~s_cut /\ device = "open"

\* Every device.write of the session passed exactly one chunk
WritesAreChunks == \A i \in 1 .. Len(written) : Len(written[i]) = ChunkSize

\* The stream of the file followed by the zero bytes that fill its last chunk
Padded(file) ==
  Range(0, Sum(file.frames)) \o Zeros((0 - Sum(file.frames)) % ChunkSize)

\* C5 as claimed: in _play, for WAV and MP3 input and every sequence of
\* decoded frame sizes, every device.write passes exactly periodsize *
\* channels * width bytes, and a stream played to its end is written in
\* order, its last write being the remaining data followed by zero bytes up
\* to that size.
C5_AsClaimed ==
  s_job.kind = "play" =>
    /\ WritesAreChunks
    /\ PlayedOut => Concat(written) = Padded(s_job.file)

\* C6 as claimed: in a recording ended by clearing currently_recording, every
\* call of cb with isFinal false carries one full period (RECORD_PERIOD
\* samples of SAMPLE_BYTES bytes), exactly one call has isFinal true, it is
\* the last call, and it is made only once the flag is cleared.
C6_AsClaimed ==
  /\ \A i \in 1 .. Len(cb_log) :
       /\ cb_log[i].final => (i = Len(cb_log) /\ ~cb_log[i].flag)
       /\ ~cb_log[i].final => cb_log[i].len = RECORD_PERIOD * SAMPLE_BYTES
  /\ (s_pc \in {"rec_finally", "rec_close"} /\ ~s_exc /\ device = "open") =>
       (cb_log # <<>> /\ cb_log[Len(cb_log)].final)

\* Kind of the job, queued or running, whose future is id
KindOf(id) ==
  IF s_job.fut = id THEN s_job.kind
  ELSE IF \E i \in 1 .. Len(audio_jobs) : audio_jobs[i].fut = id
  THEN (CHOOSE j \in {audio_jobs[i] : i \in 1 .. Len(audio_jobs)} : j.fut = id).kind
  ELSE "none"

\* C7 as claimed: while start_playing_preloaded or start_recording awaits the
\* worker of the session in progress, that session has been stopped: the
\* active flag of a recording is cleared when the session is a recording, the
\* active flag of a playback when it is a playback.
C7_AsClaimed ==
  \A t \in TASKS :
    (t_pc[t] = "wait" /\ t_call[t].fn \in {"start_playing_preloaded", "start_recording"}) =>
      /\ KindOf(t_await[t]) = "record" => ~currently_recording
      /\ KindOf(t_await[t]) = "play" => ~currently_playing

\* The call fn of task t returns in this step
Returns(t, fn) ==
  /\ t_left'[t] # t_left[t] \/ t_pc[t] = "ready"
  /\ t_pc'[t] = "idle" /\ t_result'[t] = "returned" /\ t_call'[t].fn = fn

\* No playback job is queued or running, and no device is open
NoPlayback ==
  /\ \A i \in 1 .. Len(audio_jobs) : audio_jobs[i].kind # "play"
  /\ s_job.kind # "play"
  /\ device # "open"

\* C8 as claimed: when a call of stop_playing returns, no playback job is
\* queued or running and the device is closed; stop_playing called with no
\* session returns at once and changes nothing.
C8_AsClaimed ==
  [][\A t \in TASKS :
       /\ Returns(t, "stop_playing") => NoPlayback'
       /\ (Returns(t, "stop_playing") /\ future = None /\ ~currently_playing) =>
            UNCHANGED <<flagVars, sessVars>>]_vars

\* C9 as claimed: after a device write or read raised during a period of a
\* session, no call of wait_until_done, stop_playing, stop_recording or
\* start_* raises; and once the worker is through, the active flag of the
\* session is cleared and the device is closed.
C9_AsClaimed ==
  fault_at \in {"write", "read"} =>
    /\ \A t \in TASKS : t_result[t] # "raised"
    /\ (s_pc = "idle" /\ audio_jobs = <<>> /\ future = None) =>
         (~currently_playing /\ ~currently_recording /\ device # "open")

\* The call of the given kind returns to its caller in this step
Returned(kind) == op.kind = kind /\ op_pc # "idle" /\ op_pc' = "idle"

\* C11 as claimed: when go or detect_positions returns to its caller neither
\* motor is running, and detect_positions always goes through the worker
\* thread, also when both positions are known.
C11_AsClaimed ==
  [][/\ (Returned("go") \/ Returned("detect")) => \A e \in EARS : ~running'[e]
     /\ (op_pc = "detect_check" /\ op_pc' # op_pc) => op_pc' = "await"]_vars

\* C11 (as the code has it): go does not wait for the motion.  A go that
\* called _start_motor returns right after line 99, with running[ear] True
\* unless the encoder callback has stopped that motor meanwhile (both its
\* pins are then low); go awaits the worker only for the detection of line
\* 199, and when that detection returns without error neither motor is
\* running at line 200.  detect_positions queues _run_detection on the
\* worker only when a position is None: its caller then resumes with neither
\* motor running when the detection returned, and with the error when it
\* raised (a motor may then still run); when both positions are known it
\* returns at once on the loop thread and queues nothing.
C11_ReturnsAtOnce ==
  [][/\ \A e \in EARS :
          (op_pc = "go_dir" /\ op_pc' = "idle" /\ op.ear = e) =>
            (running'[e] \/ BothLow(e)')
     /\ (op_pc = "detect_check" /\ op_pc' # op_pc) =>
          IF \A e \in EARS : positions[e] # None
          THEN op_pc' = "idle" /\ ear_jobs' = ear_jobs /\ w_pc' = w_pc
          ELSE op_pc' = "await" /\ Len(ear_jobs') = Len(ear_jobs) + 1
     /\ (op_pc = "await" /\ op_pc' # op_pc /\ ear_future = "done") =>
          \A e \in EARS : ~running'[e]
     /\ (op_pc = "await" /\ op_pc' # op_pc /\ ear_future = "error") =>
          op_error']_vars

\* go has returned after starting a motor that is running still
C11_Witness ==
  /\ op_pc = "idle" /\ ~lock_held /\ ops_left < MaxOps
  /\ \E e \in EARS : running[e] /\ starts[e] >= 1 /\ ~BothLow(e)

\* This step is made by a thread that holds the mutex of encoder_cv: a run of
\* _encoder_cb (line 58), or the detection loop from its wake-up to its next
\* wait (lines 128-162)
MutexStep == (\E e \in EARS : EncoderCb(e)) \/ DetSignal \/ DetTimeout

\* C12 as claimed: every write to positions, targets, directions or running
\* is made by a thread holding the mutex of encoder_cv, be it the encoder
\* callback, the detection and reset code of the worker, or go.
C12_AsClaimed ==
  [][(positions' # positions \/ targets' # targets \/ directions' # directions
        \/ running' # running) => MutexStep]_vars

\* This step is a write of a motor pin by the worker thread (line 125 ->
\* lines 96-97)
WorkerPinStep == DetStartLow \/ DetStartHigh

\* C13 as claimed: the motor pins are written by the worker thread only,
\* never by the thread of the encoder callback nor by the event-loop thread.
C13_AsClaimed == [][pins' # pins => WorkerPinStep]_vars

\* Exactly one pin of the pair of the ear is high
OneHigh(e) == (pins[e][0] = HIGH) # (pins[e][1] = HIGH)

\* _start_motor returns for ear e in this step (line 99 done), called by go
\* or by _run_detection
StartReturns(e) ==
  \/ op_pc = "go_dir" /\ op_pc' # "go_dir" /\ op.ear = e
  \/ w_pc = "det_dir" /\ w_pc' # "det_dir" /\ w_ear = e

\* C14 as claimed: the two pins of an axis are never both high; when
\* _start_motor returns exactly one pin of the pair is high, running[axis] is
\* True and directions[axis] is 1 or -1; when _stop_motor has run both pins
\* are low, running[axis] is False and directions[axis] is 0.
C14_AsClaimed ==
  /\ [](\A e \in EARS : ~(pins[e][0] = HIGH /\ pins[e][1] = HIGH))
  /\ [][\A e \in EARS :
          /\ StartReturns(e) =>
               (OneHigh(e)' /\ running'[e] /\ directions'[e] \in {1, -1})
          /\ Stops(e) =>
               (BothLow(e)' /\ ~running'[e] /\ directions'[e] = 0)]_vars

\* Line 200 of a go call writes targets[e] in this step
WritesTarget(e) == op_pc = "go_target" /\ op_pc' = "go_compare" /\ op'.ear = e

\* A move call on ear e has read targets[e] at line 166 and waits for the lock
\* to write it at line 200
MoveWaiting(e) ==
  \E i \in 1 .. Len(lock_waiters) :
    lock_waiters[i].kind = "move" /\ lock_waiters[i].ear = e

\* C15 as claimed: the ear operations run inside the asyncio lock, so that
\* two concurrent go or move calls never interleave their reads and writes of
\* targets: no call writes targets[ear] between the read and the write of
\* targets[ear] that another call makes.
C15_AsClaimed ==
  [][\A e \in EARS : WritesTarget(e) => ~MoveWaiting(e)]_vars

\* The worker sleeps in the wait() of _do_wait_while_running (line 178) and
\* no notification is pending for it
Asleep == w_pc = "wwr_wait" /\ ~notified

\* Both motors are stopped: no pin is high and no _start_motor is under way
MotorsStopped == (\A e \in EARS : BothLow(e)) /\ op_pc = "idle"

\* C16 as claimed: wait_while_running returns only when running[0] and
\* running[1] are both False, and it returns whenever both motors have
\* stopped: no stop of a motor leaves the worker asleep in wait() without a
\* notification, so the worker never sleeps on while both motors are stopped.
C16_AsClaimed ==
  /\ [](~(Asleep /\ MotorsStopped))
  /\ [][(w_pc = "wwr_loop" /\ w_pc' = "idle") =>
          \A e \in EARS : ~running[e]]_vars

\* C17: an encoder edge on an axis whose recorded direction is 0, with a
\* move callback registered, sets the position of that axis to None and
\* schedules the move callback exactly once, with that axis index; targets,
\* running, directions, the position of the other axis and every motor pin
\* stay as they are, and the condition variable is not notified.
C17_NeutralEdge ==
  [][\A e \in EARS :
       (EncoderCb(e) /\ directions[e] = 0 /\ callback) =>
         /\ positions'[e] = None
         /\ moved' = <<e>>
         /\ \A o \in EARS \ {e} : positions'[o] = positions[o]
         /\ targets' = targets /\ running' = running
         /\ directions' = directions /\ pins' = pins
         /\ notified' = notified]_vars

\* The callback has just handled an edge of a stopped ear: its position is
\* forgotten and the move callback scheduled for it
C17_Witness ==
  \E e \in EARS :
    /\ moved = <<e>> /\ positions[e] = None /\ directions[e] = 0
    /\ stray[e] /\ ~running[e] /\ InRange(targets[e])

\* C18 as claimed: once the worker of a playback has seen currently_playing
\* cleared with part of the stream still to play, WAV or MP3, it issues no
\* further device.write: a partly filled chunk is dropped, not padded and
\* written.
C18_AsClaimed ==
  [][(s_job.kind = "play" /\ s_cut) => Len(written') <= Len(written)]_vars

\* The job of future f waits in the queue of the executor
Queued(f) == \E i \in 1 .. Len(audio_jobs) : audio_jobs[i].fut = f

\* The futures of the jobs (_play or _record) a worker has begun and not
\* finished
Executing == {f \in FutIds : fut_state[f] = "pending" /\ ~Queued(f)}

\* C19: whatever the tasks call and in whatever order, at most one audio job
\* (_play or _record) is executing at any time, and it is the job of the one
\* worker thread; a device is open only while its job runs; a job begins only
\* when every job submitted before it has finished and no device is open.
C19_OneWorker ==
  /\ [](/\ Executing \subseteq {s_job.fut}
        /\ Executing # {} => s_pc # "idle"
        /\ s_pc = "idle" => device # "open")
  /\ [][(s_pc = "idle" /\ s_pc' # "idle") =>
          /\ device # "open"
          /\ \A g \in FutIds :
               g < s_job'.fut => fut_state[g] \in {"done", "raised"}]_vars

\* A new session was submitted while the job of the previous one still runs
\* with its device open: only the executor keeps the two apart
C19_Witness ==
  /\ audio_jobs # <<>> /\ s_pc # "idle" /\ device = "open"
  /\ Executing = {s_job.fut}

\* A go call that found its ear running at line 200 has passed line 205 and
\* is in its _start_motor (line 212)
Retargeting ==
  /\ op.kind = "go" /\ req[op.ear] = None
  /\ op_pc \in {"go_low", "go_high", "go_run", "go_dir"}

\* C20 as claimed: a go called while its axis is running toward an earlier
\* target never stops the motor: while the call restarts the motor toward the
\* new target running[axis] stays True, and the call returns with the motor
\* powered (its pins are not both low).
C20_AsClaimed ==
  [][\A e \in EARS :
       (Retargeting /\ op.ear = e) =>
         /\ running'[e]
         /\ op_pc' = "idle" => ~BothLow(e)']_vars


\* ------------------------------------------------------------------ C21

\* C21 as claimed: in every reachable state, for every interleaving of
\* encoder edges with reset_ears, detect_positions and go, an axis whose
\* motor is running with a non-zero direction has a known position of
\* 0 .. HOLES - 1, so that line 65 is always defined.
C21_AsClaimed ==
  \A e \in EARS :
    (running[e] /\ directions[e] # 0) => InRange(positions[e])


\* ------------------------------------------------------------------ C22

\* Ear e is being homed, or was homed, by the latest detection run, which had
\* no caller target for it and found its motor at rest (line 123 ran with the
\* target argument None, running False and both pins low)
Untargeted(e) == counted[e] # None

====
